---- MODULE Spec2Model ----
(***************************************************************************)
(* The alert-to-action engine of the self-healing operator                 *)
(* (src/unnamed/part_004, lines 1-269: the version with the cooldown       *)
(* guard).  Two webhook deliveries run concurrently, each on its own       *)
(* goroutine; they share the cooldown map, the recovery counters and the   *)
(* cluster.  Every step of handleWebhook that touches shared state or the  *)
(* cluster is one action; a cluster call is in flight between the action   *)
(* that issues it and the action that handles its return.                  *)
(*                                                                         *)
(* msg.Alerts is immutable after decoding and is read exactly once, in     *)
(* array order, by the range loop: the model keeps the number of alerts    *)
(* still to be read and draws the alert at each position when the loop     *)
(* reaches it.  Time is counted in minutes.                                *)
(***************************************************************************)
EXTENDS Integers, Sequences, FiniteSets, TLC

\* ---------------------------------------------------------------- bounds
\* The alerts all deliveries carry in total, and the last minute of the clock.
MaxAlerts == 2
MaxTime == 3

\* ------------------------------------------------------ program constants
CooldownTime == 3
StatusOK == 200
StatusBadRequest == 400
StatusMethodNotAllowed == 405

Deliveries == {"d1", "d2"}

\* The delivery e is numbered before the delivery d.
Before(e, d) == e = "d1" /\ d = "d2"

NoOne == "free"
None == [Action |-> ""]
NoAlert == [status |-> "none"]
NoRequest == [method |-> ""]

\* ------------------------------------------------------------------ inputs
Methods == {"POST", "GET"}
Statuses == {"firing", "resolved", ""}
ActionLabels == {"", "restart", "redeploy", "scale", "reboot"}
PodLabels == {"", "nodejs-app-abc"}
NamespaceLabels == {"", "default"}
AppLabels == {"", "nodejs-app"}

\* An absent label and an empty label are the same to the code: a Go map
\* lookup of an absent key yields "".
Alerts ==
    [status : Statuses,
     labels : [recovery_action : ActionLabels, pod : PodLabels,
               namespace : NamespaceLabels, app : AppLabels,
               alertname : {"HighMemoryUsage"}]]

\* The alerts about the pods of nodejs-app, whose rules in
\* manifests/monitoring/prometheus-rules.yaml set app: "nodejs-app" and whose
\* pods run in the namespace default.
AppAlerts ==
    {al \in Alerts : al.labels.app = "nodejs-app"
                      /\ al.labels.namespace = "default"}

\* A request body as the handler reads it: its first JSON document, which is
\* a batch of n alerts or is malformed, whether that document ends within the
\* first MiB of the body (fits), and whether the body is longer than 1 MiB
\* (over).  A document that does not fit makes the body longer than 1 MiB; the
\* alerts of a document that is malformed or does not fit are never read.
Bodies ==
    {b \in [json : {"batch", "malformed"}, n : 0..MaxAlerts,
            fits : BOOLEAN, over : BOOLEAN] :
        /\ ~b.fits => b.over
        /\ (b.json = "malformed" \/ ~b.fits) => b.n = 0}

\* The bodies that are not longer than 1 MiB.
BodiesWithin == {b \in Bodies : ~b.over}

\* json.NewDecoder(http.MaxBytesReader(w, r.Body, 1<<20)).Decode(&msg): the
\* decoder reads up to the end of the first JSON document and no further; it
\* fails when the document is malformed and when the reader cuts it off at
\* 1 MiB.
Decodes(body) == body.json = "batch" /\ body.fits

\* ------------------------------------------------------------------- state
VARIABLES
    now,            \* the wall clock (time.Now), in minutes
    lastAction,     \* map cooldown key -> time of the last recorded action
    recoveryCount,  \* map action kind -> number of recorded recoveries
    cooldownMu,     \* holder of cooldownMu, or NoOne
    recoveryMu,     \* holder of recoveryMu, or NoOne
    deployments,    \* the cluster: deployment name -> its object
    pc,             \* where each delivery's goroutine is
    req,            \* the request of the delivery: its method, whether its
                    \* body decodes and whether it is longer than 1 MiB
    todo,           \* alerts of msg.Alerts the loop has not read yet
    unsent,         \* alerts the alert router may still send (of MaxAlerts)
    alert,          \* the loop variable: the alert being processed
    action,         \* the RecoveryAction being processed, or None
    dep,            \* the deployment object the delivery took from the list
    scale,          \* the Scale object the delivery got from GetScale
    resp,           \* status codes written to the ResponseWriter
    outcome,        \* the log line of the alert the delivery finished last
    lastMut,        \* cooldown key -> time of the last successful mutation
    deleteCalled,   \* the cooldown keys a Delete call was issued for
    main,           \* the statement func main is at, "serving" once
                    \* ListenAndServe accepts requests, "exited" after
                    \* log.Fatal
    clientset,      \* the package variable clientset: Nil or the client
    health,         \* the reply to the last GET /health: code and body
    succeeded,      \* the number of actions that have returned nil
    recorded        \* the number of writes recordCooldown has made

vars == <<now, lastAction, recoveryCount, cooldownMu, recoveryMu, deployments,
          pc, req, todo, unsent, alert, action, dep, scale, resp, outcome,
          lastMut, deleteCalled, main, clientset, health, succeeded,
          recorded>>

\* What func main and handleHealth write, which handleWebhook leaves alone.
process == <<main, clientset, health>>

\* The request and its reply, which the loop body leaves alone.
frame == <<req, unsent, resp, process>>

\* ----------------------------------------------------------------- helpers
Has(m, k) == k \in DOMAIN m

Put(m, k, v) == [x \in DOMAIN m \cup {k} |-> IF x = k THEN v ELSE m[x]]

Get(m, k, default) == IF Has(m, k) THEN m[k] ELSE default

CooldownKey(a) == a.Namespace \o "/" \o a.App

\* A variant of the translation without the test of the recovery_action
\* label.
parseRecoveryActionUnchecked(al) ==
    [Action |-> al.labels.recovery_action,
     Pod |-> al.labels.pod,
     Namespace |-> IF al.labels.namespace = "" THEN "default"
                   ELSE al.labels.namespace,
     App |-> al.labels.app,
     AlertName |-> al.labels.alertname]

\* A variant of the translation that looks at the cooldown map: it drops the
\* pod of an alert whose key has a record.
parseRecoveryActionRecorded(al) ==
    IF al.labels.recovery_action = "" THEN None
    ELSE [Action |-> al.labels.recovery_action,
          Pod |-> IF Has(lastAction, "default/" \o al.labels.app) THEN ""
                  ELSE al.labels.pod,
          Namespace |-> IF al.labels.namespace = "" THEN "default"
                        ELSE al.labels.namespace,
          App |-> al.labels.app,
          AlertName |-> al.labels.alertname]

parseRecoveryAction(al) ==
    IF al.labels.recovery_action = "" THEN None
    ELSE [Action |-> al.labels.recovery_action,
          Pod |-> al.labels.pod,
          Namespace |-> IF al.labels.namespace = "" THEN "default"
                        ELSE al.labels.namespace,
          App |-> al.labels.app,
          AlertName |-> al.labels.alertname]

\* A variant of the status test that lets through whatever is not resolved.
FiringUnlessResolved(al) == al.status # "resolved"

\* The status test of the loop: only a firing alert is looked at.
Firing(al) == al.status = "firing"

\* A variant of the check with one window for all keys.
isCoolingDownAnyKey(key) ==
    \E k \in DOMAIN lastAction : now - lastAction[k] < CooldownTime

\* A variant of the check that takes a key never recorded for cooling down.
isCoolingDownUnrecorded(key) ==
    ~Has(lastAction, key) \/ now - lastAction[key] < CooldownTime

\* A variant of the check whose window includes its last instant.
isCoolingDownInclusive(key) ==
    Has(lastAction, key) /\ now - lastAction[key] <= CooldownTime

isCoolingDown(key) ==
    Has(lastAction, key) /\ now - lastAction[key] < CooldownTime

\* ----------------------------------------------------------------- cluster
RestartedAt == "kubectl.kubernetes.io/restartedAt"

\* An optional value (a Go pointer): <<>> is nil, <<v>> points to v.
Nil == <<>>

NoDep == [name |-> ""]

NoScale == [name |-> ""]

\* The deployments of the cluster in name order, the order in which List
\* returns them: the deployment of manifests/apps/nodejs-app and a second one
\* that carries the same app label.
DeploymentNames == <<"nodejs-app", "nodejs-app-v2">>

\* The cluster before any recovery: nodejs-app as its manifest declares it.
InitialDeployments ==
    [n \in {"nodejs-app", "nodejs-app-v2"} |->
        [namespace |-> "default", app |-> "nodejs-app",
         replicas |-> IF n = "nodejs-app" THEN <<2>> ELSE <<1>>,
         annotations |-> <<>>, rv |-> 0]]

\* A cluster whose first deployment has no replica count: Spec.Replicas is a
\* *int32 and the list result may carry it as nil.
UnsetDeployments ==
    [InitialDeployments EXCEPT !["nodejs-app"].replicas = Nil]

\* A variant that takes the last item of a list result.
ItemLast(items) == items[Len(items)]

\* deployments.Items[0]
Item0(items) == items[1]

\* A variant of the lookup that ignores the label selector and the namespace.
ListItemsAll(namespace, app) == DeploymentNames

\* What Deployments(namespace).List returns for the selector "app=" + app:
\* the matching deployments.
ListItems(namespace, app) ==
    SelectSeq(DeploymentNames,
              LAMBDA n : deployments[n].namespace = namespace
                         /\ deployments[n].app = app)

\* ------------------------------------------------------------------- Init
\* The package variables as the program text initialises them, no request
\* received yet, and the cluster as it is found.
LoadedWith(cluster) ==
    /\ now = 0
    /\ lastAction = <<>>
    /\ recoveryCount = <<>>
    /\ cooldownMu = NoOne
    /\ recoveryMu = NoOne
    /\ deployments = cluster
    /\ pc = [d \in Deliveries |-> "idle"]
    /\ req = [d \in Deliveries |-> NoRequest]
    /\ todo = [d \in Deliveries |-> 0]
    /\ unsent = MaxAlerts
    /\ alert = [d \in Deliveries |-> NoAlert]
    /\ action = [d \in Deliveries |-> None]
    /\ dep = [d \in Deliveries |-> NoDep]
    /\ scale = [d \in Deliveries |-> NoScale]
    /\ resp = [d \in Deliveries |-> <<>>]
    /\ outcome = [d \in Deliveries |-> "none"]
    /\ lastMut = <<>>
    /\ deleteCalled = {}
    /\ health = <<>>
    /\ succeeded = 0
    /\ recorded = 0

Loaded == LoadedWith(InitialDeployments)

\* The server is up: main created the client, registered the handlers and
\* ListenAndServe accepts requests.
Init ==
    /\ Loaded
    /\ main = "serving"
    /\ clientset = <<"client">>

\* The process starts: main is at its first statement and clientset is nil.
InitMain ==
    /\ Loaded
    /\ main = "InClusterConfig"
    /\ clientset = Nil

\* ------------------------------------------------- handleWebhook, the frame
\* http.Error / w.WriteHeader followed by return.
Reply(d, code) ==
    /\ resp' = [resp EXCEPT ![d] = Append(@, code)]
    /\ pc' = [pc EXCEPT ![d] = "done"]

\* A variant of the handler without the method check: the body of a request
\* of any method is decoded.
ReceiveAnyMethod(d, bodies) ==
    /\ main = "serving"
    /\ pc[d] = "idle"
    /\ \A e \in Deliveries : Before(e, d) => pc[e] # "idle"
    /\ \E method \in Methods :
         \E body \in bodies :
                /\ body.n <= unsent
                /\ unsent' = unsent - body.n
                /\ req' = [req EXCEPT ![d] =
                              [method |-> method, decodes |-> Decodes(body),
                               over |-> body.over]]
                /\ IF ~Decodes(body)
                   THEN Reply(d, StatusBadRequest) /\ UNCHANGED todo
                   ELSE /\ todo' = [todo EXCEPT ![d] = body.n]
                        /\ pc' = [pc EXCEPT ![d] = "loop"]
                        /\ UNCHANGED resp
    /\ UNCHANGED <<now, lastAction, recorded, recoveryCount, cooldownMu,
                   recoveryMu, deployments, alert, action, dep, scale,
                   outcome, lastMut, succeeded, deleteCalled, process>>

\* The request arrives: the method check, then the decoding of the body,
\* which a request of another method never gets to.  The deliveries are
\* numbered in the order of their arrival.
Receive(d, bodies) ==
    /\ main = "serving"
    /\ pc[d] = "idle"
    /\ \A e \in Deliveries : Before(e, d) => pc[e] # "idle"
    /\ \E method \in Methods :
         IF method # "POST"
         THEN /\ req' = [req EXCEPT ![d] = [method |-> method]]
              /\ Reply(d, StatusMethodNotAllowed)
              /\ UNCHANGED <<todo, unsent>>
         ELSE \E body \in bodies :
                /\ body.n <= unsent
                /\ unsent' = unsent - body.n
                /\ req' = [req EXCEPT ![d] =
                              [method |-> method, decodes |-> Decodes(body),
                               over |-> body.over]]
                /\ IF ~Decodes(body)
                   THEN Reply(d, StatusBadRequest) /\ UNCHANGED todo
                   ELSE /\ todo' = [todo EXCEPT ![d] = body.n]
                        /\ pc' = [pc EXCEPT ![d] = "loop"]
                        /\ UNCHANGED resp
    /\ UNCHANGED <<now, lastAction, recorded, recoveryCount, cooldownMu,
                   recoveryMu, deployments, alert, action, dep, scale,
                   outcome, lastMut, succeeded, deleteCalled, process>>

\* One iteration of the range loop begins, with an alert of `sent`: the
\* status check and the translation of the alert.
NextAlert(d, sent) ==
    /\ pc[d] = "loop"
    /\ todo[d] > 0
    /\ todo' = [todo EXCEPT ![d] = @ - 1]
    /\ \E al \in sent :
         IF ~Firing(al)
         THEN /\ outcome' = [outcome EXCEPT ![d] = "notfiring"]
              /\ UNCHANGED <<pc, alert, action>>
         ELSE IF parseRecoveryAction(al) = None
         THEN /\ outcome' = [outcome EXCEPT ![d] = "nolabel"]
              /\ UNCHANGED <<pc, alert, action>>
         ELSE /\ alert' = [alert EXCEPT ![d] = al]
              /\ action' = [action EXCEPT ![d] = parseRecoveryAction(al)]
              /\ pc' = [pc EXCEPT ![d] = "isCoolingDown"]
              /\ UNCHANGED outcome
    /\ UNCHANGED <<now, lastAction, recorded, recoveryCount, cooldownMu,
                   recoveryMu, deployments, dep, scale, lastMut, succeeded,
                   deleteCalled, frame>>

\* A variant of the acknowledgment that does not wait for the end of the
\* loop.
RespondEarly(d) ==
    /\ pc[d] = "loop"
    /\ Reply(d, StatusOK)
    /\ outcome' = [outcome EXCEPT ![d] = "none"]
    /\ UNCHANGED <<now, lastAction, recorded, recoveryCount, cooldownMu,
                   recoveryMu, deployments, req, todo, unsent, alert, action,
                   dep, scale, lastMut, succeeded, deleteCalled, process>>

\* The loop is over: the acknowledgment.
Respond(d) ==
    /\ pc[d] = "loop"
    /\ todo[d] = 0
    /\ Reply(d, StatusOK)
    /\ outcome' = [outcome EXCEPT ![d] = "none"]
    /\ UNCHANGED <<now, lastAction, recorded, recoveryCount, cooldownMu,
                   recoveryMu, deployments, req, todo, unsent, alert, action,
                   dep, scale, lastMut, succeeded, deleteCalled, process>>

\* `continue`: the alert is done with, and `line` is what the log says of it.
Continue(d, line) ==
    /\ outcome' = [outcome EXCEPT ![d] = line]
    /\ alert' = [alert EXCEPT ![d] = NoAlert]
    /\ action' = [action EXCEPT ![d] = None]
    /\ dep' = [dep EXCEPT ![d] = NoDep]
    /\ scale' = [scale EXCEPT ![d] = NoScale]
    /\ pc' = [pc EXCEPT ![d] = "loop"]

\* ------------------------------------------------------------ the cooldown
\* A variant of the entry into isCoolingDown that waits until no cluster call
\* of another delivery is in flight.
LockCooldownCheckIdle(d) ==
    /\ pc[d] = "isCoolingDown"
    /\ \A e \in Deliveries \ {d} :
           pc[e] \notin {"deletePod", "listForRedeploy", "update",
                         "listForScale", "getScale", "updateScale"}
    /\ cooldownMu = NoOne
    /\ cooldownMu' = d
    /\ pc' = [pc EXCEPT ![d] = "isCoolingDownLocked"]
    /\ UNCHANGED <<now, lastAction, recorded, recoveryCount, recoveryMu,
                   deployments, todo, alert, action, dep, scale, outcome,
                   lastMut, succeeded, deleteCalled, frame>>

LockCooldownCheck(d) ==
    /\ pc[d] = "isCoolingDown"
    /\ cooldownMu = NoOne
    /\ cooldownMu' = d
    /\ pc' = [pc EXCEPT ![d] = "isCoolingDownLocked"]
    /\ UNCHANGED <<now, lastAction, recorded, recoveryCount, recoveryMu,
                   deployments, todo, alert, action, dep, scale, outcome,
                   lastMut, succeeded, deleteCalled, frame>>

LockRecordCooldown(d) ==
    /\ pc[d] = "recordCooldown"
    /\ cooldownMu = NoOne
    /\ cooldownMu' = d
    /\ pc' = [pc EXCEPT ![d] = "recordCooldownLocked"]
    /\ UNCHANGED <<now, lastAction, recorded, recoveryCount, recoveryMu,
                   deployments, todo, alert, action, dep, scale, outcome,
                   lastMut, succeeded, deleteCalled, frame>>

\* A variant of the record that files the time under a key of its own making,
\* which the check does not look up.
recordCooldownOtherKey(key) ==
    /\ lastAction' = Put(lastAction, key \o "/pod", now)
    /\ recorded' = recorded + 1

\* A variant of the record that starts a new map with the one key.
recordCooldownAlone(key) ==
    /\ lastAction' = [k \in {key} |-> now]
    /\ recorded' = recorded + 1

recordCooldown(key) ==
    /\ lastAction' = Put(lastAction, key, now)
    /\ recorded' = recorded + 1

\* A variant of the success branch that goes back to the head of the loop
\* with the counter still to be written.
RecordCooldownThenLoop(d) ==
    /\ pc[d] = "recordCooldownLocked"
    /\ recordCooldown(CooldownKey(action[d]))
    /\ cooldownMu' = NoOne
    /\ pc' = [pc EXCEPT ![d] = "loop"]
    /\ UNCHANGED <<now, recoveryCount, recoveryMu, deployments, todo, alert,
                   action, dep, scale, outcome, lastMut, succeeded,
                   deleteCalled, frame>>

\* A variant of recordCooldown that returns without the Unlock.
RecordCooldownHeld(d) ==
    /\ pc[d] = "recordCooldownLocked"
    /\ recordCooldown(CooldownKey(action[d]))
    /\ pc' = [pc EXCEPT ![d] = "recordRecovery"]
    /\ UNCHANGED <<now, recoveryCount, cooldownMu, recoveryMu, deployments,
                   todo, alert, action, dep, scale, outcome, lastMut,
                   succeeded, deleteCalled, frame>>

RecordCooldown(d) ==
    /\ pc[d] = "recordCooldownLocked"
    /\ recordCooldown(CooldownKey(action[d]))
    /\ cooldownMu' = NoOne
    /\ pc' = [pc EXCEPT ![d] = "recordRecovery"]
    /\ UNCHANGED <<now, recoveryCount, recoveryMu, deployments, todo, alert,
                   action, dep, scale, outcome, lastMut, succeeded,
                   deleteCalled, frame>>

\* ------------------------------------------------------------ the counters
LockRecordRecovery(d) ==
    /\ pc[d] = "recordRecovery"
    /\ recoveryMu = NoOne
    /\ recoveryMu' = d
    /\ pc' = [pc EXCEPT ![d] = "recordRecoveryLocked"]
    /\ UNCHANGED <<now, lastAction, recorded, recoveryCount, cooldownMu,
                   deployments, todo, alert, action, dep, scale, outcome,
                   lastMut, succeeded, deleteCalled, frame>>

\* A variant of the counter whose increment is lost when another delivery is
\* about to count an action of the same kind: both read the same old value.
recordRecoveryRacy(kind) ==
    recoveryCount' =
        Put(recoveryCount, kind,
            Get(recoveryCount, kind, 0) +
                (IF \E e \in Deliveries :
                        pc[e] = "recordRecovery" /\ action[e].Action = kind
                 THEN 0 ELSE 1))

\* A variant of the counter that notes that a kind has recovered, not how
\* often.
recordRecoveryFlag(kind) == recoveryCount' = Put(recoveryCount, kind, 1)

recordRecovery(kind) ==
    recoveryCount' = Put(recoveryCount, kind, Get(recoveryCount, kind, 0) + 1)

\* A variant of recordRecovery that returns without the Unlock.
RecordRecoveryHeld(d) ==
    /\ pc[d] = "recordRecoveryLocked"
    /\ recordRecovery(action[d].Action)
    /\ alert' = [alert EXCEPT ![d] = NoAlert]
    /\ action' = [action EXCEPT ![d] = None]
    /\ dep' = [dep EXCEPT ![d] = NoDep]
    /\ scale' = [scale EXCEPT ![d] = NoScale]
    /\ pc' = [pc EXCEPT ![d] = "loop"]
    /\ UNCHANGED <<now, lastAction, recorded, cooldownMu, recoveryMu,
                   deployments, todo, outcome, lastMut, succeeded,
                   deleteCalled, frame>>

\* The increment, the deferred Unlock, and the end of the loop body.
RecordRecovery(d) ==
    /\ pc[d] = "recordRecoveryLocked"
    /\ recordRecovery(action[d].Action)
    /\ recoveryMu' = NoOne
    /\ alert' = [alert EXCEPT ![d] = NoAlert]
    /\ action' = [action EXCEPT ![d] = None]
    /\ dep' = [dep EXCEPT ![d] = NoDep]
    /\ scale' = [scale EXCEPT ![d] = NoScale]
    /\ pc' = [pc EXCEPT ![d] = "loop"]
    /\ UNCHANGED <<now, lastAction, recorded, cooldownMu, deployments, todo,
                   outcome, lastMut, succeeded, deleteCalled, frame>>

\* ------------------------------------------------------------ the executor
\* executeRecoveryAction returned nil: the handler logs the success and goes
\* on to recordCooldown.  The mutation took effect at this moment.
Succeed(d) ==
    /\ outcome' = [outcome EXCEPT ![d] = "ok"]
    /\ lastMut' = Put(lastMut, CooldownKey(action[d]), now)
    /\ succeeded' = succeeded + 1
    /\ pc' = [pc EXCEPT ![d] = "recordCooldown"]
    /\ dep' = [dep EXCEPT ![d] = NoDep]
    /\ scale' = [scale EXCEPT ![d] = NoScale]
    /\ UNCHANGED <<alert, action>>

\* A variant of the error branch that runs the same alert through the
\* cooldown check and the executor again.
FailRetry(d, err) ==
    /\ outcome' = [outcome EXCEPT ![d] = err]
    /\ pc' = [pc EXCEPT ![d] = "isCoolingDown"]
    /\ dep' = [dep EXCEPT ![d] = NoDep]
    /\ scale' = [scale EXCEPT ![d] = NoScale]
    /\ UNCHANGED <<alert, action, lastMut, succeeded>>

\* A variant of the error branch that goes on to recordCooldown as the
\* success branch does.
FailRecorded(d, err) ==
    /\ outcome' = [outcome EXCEPT ![d] = err]
    /\ pc' = [pc EXCEPT ![d] = "recordCooldown"]
    /\ dep' = [dep EXCEPT ![d] = NoDep]
    /\ scale' = [scale EXCEPT ![d] = NoScale]
    /\ UNCHANGED <<alert, action, lastMut, succeeded>>

\* A variant of the error branch that returns from the handler where the
\* code has `continue`.
FailReturn(d, err) ==
    /\ outcome' = [outcome EXCEPT ![d] = err]
    /\ alert' = [alert EXCEPT ![d] = NoAlert]
    /\ action' = [action EXCEPT ![d] = None]
    /\ dep' = [dep EXCEPT ![d] = NoDep]
    /\ scale' = [scale EXCEPT ![d] = NoScale]
    /\ pc' = [pc EXCEPT ![d] = "done"]
    /\ UNCHANGED <<lastMut, succeeded>>

\* executeRecoveryAction returned the error `err`: the handler logs it and
\* the loop goes on.
Fail(d, err) ==
    /\ Continue(d, err)
    /\ UNCHANGED <<lastMut, succeeded>>

\* A variant of the executor in which restartPod does not look at the pod name.
executeRecoveryActionAnyPod(d) ==
    CASE action[d].Action = "restart" ->
           /\ pc' = [pc EXCEPT ![d] = "deletePod"]
           /\ deleteCalled' = deleteCalled \cup {CooldownKey(action[d])}
           /\ UNCHANGED <<alert, action, dep, scale, outcome>>
      [] action[d].Action = "redeploy" ->
           /\ pc' = [pc EXCEPT ![d] = "listForRedeploy"]
           /\ UNCHANGED <<alert, action, dep, scale, outcome, deleteCalled>>
      [] action[d].Action = "scale" ->
           /\ pc' = [pc EXCEPT ![d] = "listForScale"]
           /\ UNCHANGED <<alert, action, dep, scale, outcome, deleteCalled>>
      [] OTHER ->
           Continue(d, "unknown recovery action") /\ UNCHANGED deleteCalled

\* A variant of the executor whose switch falls back to redeploy.
executeRecoveryActionDefault(d) ==
    CASE action[d].Action = "restart" ->
           IF action[d].Pod = ""
           THEN Continue(d, "no pod name") /\ UNCHANGED deleteCalled
           ELSE /\ pc' = [pc EXCEPT ![d] = "deletePod"]
                /\ deleteCalled' = deleteCalled \cup {CooldownKey(action[d])}
                /\ UNCHANGED <<alert, action, dep, scale, outcome>>
      [] action[d].Action = "scale" ->
           /\ pc' = [pc EXCEPT ![d] = "listForScale"]
           /\ UNCHANGED <<alert, action, dep, scale, outcome, deleteCalled>>
      [] OTHER ->
           /\ pc' = [pc EXCEPT ![d] = "listForRedeploy"]
           /\ UNCHANGED <<alert, action, dep, scale, outcome, deleteCalled>>

\* A variant of the executor whose switch sends a scale action to
\* redeployDeployment.
executeRecoveryActionCrossed(d) ==
    CASE action[d].Action = "restart" ->
           IF action[d].Pod = ""
           THEN Continue(d, "no pod name") /\ UNCHANGED deleteCalled
           ELSE /\ pc' = [pc EXCEPT ![d] = "deletePod"]
                /\ deleteCalled' = deleteCalled \cup {CooldownKey(action[d])}
                /\ UNCHANGED <<alert, action, dep, scale, outcome>>
      [] action[d].Action \in {"redeploy", "scale"} ->
           /\ pc' = [pc EXCEPT ![d] = "listForRedeploy"]
           /\ UNCHANGED <<alert, action, dep, scale, outcome, deleteCalled>>
      [] OTHER ->
           Continue(d, "unknown recovery action") /\ UNCHANGED deleteCalled

\* The switch on action.Action, up to the first cluster call.
executeRecoveryAction(d) ==
    CASE action[d].Action = "restart" ->
           IF action[d].Pod = ""
           THEN Continue(d, "no pod name") /\ UNCHANGED deleteCalled
           ELSE /\ pc' = [pc EXCEPT ![d] = "deletePod"]
                /\ deleteCalled' = deleteCalled \cup {CooldownKey(action[d])}
                /\ UNCHANGED <<alert, action, dep, scale, outcome>>
      [] action[d].Action = "redeploy" ->
           /\ pc' = [pc EXCEPT ![d] = "listForRedeploy"]
           /\ UNCHANGED <<alert, action, dep, scale, outcome, deleteCalled>>
      [] action[d].Action = "scale" ->
           /\ pc' = [pc EXCEPT ![d] = "listForScale"]
           /\ UNCHANGED <<alert, action, dep, scale, outcome, deleteCalled>>
      [] OTHER ->
           Continue(d, "unknown recovery action") /\ UNCHANGED deleteCalled

\* A variant of the handler whose cooldown holds for the kinds of action that
\* were recorded only.
CheckCooldownSameKind(d) ==
    /\ pc[d] = "isCoolingDownLocked"
    /\ cooldownMu' = NoOne
    /\ IF /\ isCoolingDown(CooldownKey(action[d]))
          /\ Has(recoveryCount, action[d].Action)
       THEN Continue(d, "cooldown") /\ UNCHANGED deleteCalled
       ELSE executeRecoveryAction(d)
    /\ UNCHANGED <<now, lastAction, recorded, recoveryCount, recoveryMu,
                   deployments, todo, lastMut, succeeded, frame>>

\* A variant of the handler in which an alert skipped for its cooldown starts
\* the window of its key anew.
CheckCooldownRefresh(d) ==
    /\ pc[d] = "isCoolingDownLocked"
    /\ cooldownMu' = NoOne
    /\ IF isCoolingDown(CooldownKey(action[d]))
       THEN /\ Continue(d, "cooldown")
            /\ lastAction' = Put(lastAction, CooldownKey(action[d]), now)
            /\ UNCHANGED <<deleteCalled, recorded>>
       ELSE executeRecoveryAction(d) /\ UNCHANGED <<lastAction, recorded>>
    /\ UNCHANGED <<now, recoveryCount, recoveryMu, deployments, todo, lastMut,
                   succeeded, frame>>

\* A variant of the check that does not unlock cooldownMu before the
\* executor runs.
CheckCooldownLocked(d) ==
    /\ pc[d] = "isCoolingDownLocked"
    /\ IF isCoolingDown(CooldownKey(action[d]))
       THEN Continue(d, "cooldown") /\ UNCHANGED deleteCalled
       ELSE executeRecoveryAction(d)
    /\ UNCHANGED <<now, lastAction, recorded, recoveryCount, cooldownMu,
                   recoveryMu, deployments, todo, lastMut, succeeded, frame>>

\* isCoolingDown reads lastAction and unlocks; the handler skips the alert or
\* calls executeRecoveryAction, which runs up to its first cluster call.
CheckCooldown(d) ==
    /\ pc[d] = "isCoolingDownLocked"
    /\ cooldownMu' = NoOne
    /\ IF isCoolingDown(CooldownKey(action[d]))
       THEN Continue(d, "cooldown") /\ UNCHANGED deleteCalled
       ELSE executeRecoveryAction(d)
    /\ UNCHANGED <<now, lastAction, recorded, recoveryCount, recoveryMu,
                   deployments, todo, lastMut, succeeded, frame>>

\* restartPod: Pods(namespace).Delete returns.
DeletePodReturn(d) ==
    /\ pc[d] = "deletePod"
    /\ \E ok \in BOOLEAN :
         IF ok THEN Succeed(d) ELSE Fail(d, "failed to delete pod")
    /\ UNCHANGED <<now, lastAction, recorded, recoveryCount, cooldownMu,
                   recoveryMu, deployments, todo, deleteCalled, frame>>

\* The object a List call hands out for the deployment `name`.
Listed(name) ==
    [name |-> name,
     replicas |-> deployments[name].replicas,
     annotations |-> deployments[name].annotations,
     rv |-> deployments[name].rv]

\* redeployDeployment: List returns; the first item gets the annotation and
\* Update is called with it.
ListForRedeployReturn(d) ==
    /\ pc[d] = "listForRedeploy"
    /\ \E ok \in BOOLEAN :
         LET items == ListItems(action[d].Namespace, action[d].App) IN
         IF ~ok THEN Fail(d, "failed to list deployments")
         ELSE IF Len(items) = 0 THEN Fail(d, "no deployment")
         ELSE /\ dep' = [dep EXCEPT ![d] =
                    [Listed(Item0(items)) EXCEPT
                        !.annotations = Put(@, RestartedAt, now)]]
              /\ pc' = [pc EXCEPT ![d] = "update"]
              /\ UNCHANGED <<alert, action, scale, outcome, lastMut,
                             succeeded>>
    /\ UNCHANGED <<now, lastAction, recorded, recoveryCount, cooldownMu,
                   recoveryMu, deployments, todo, deleteCalled, frame>>

\* A variant of Update in which the API server does not compare the
\* resourceVersion of the object sent with the one it stores.
UpdateReturnUnconditional(d) ==
    /\ pc[d] = "update"
    /\ \E ok \in BOOLEAN :
         IF ok
         THEN /\ deployments' = [deployments EXCEPT ![dep[d].name] =
                    [@ EXCEPT !.replicas = dep[d].replicas,
                              !.annotations = dep[d].annotations,
                              !.rv = @ + 1]]
              /\ Succeed(d)
         ELSE /\ Fail(d, "failed to update deployment")
              /\ UNCHANGED deployments
    /\ UNCHANGED <<now, lastAction, recorded, recoveryCount, cooldownMu,
                   recoveryMu, todo, deleteCalled, frame>>

\* Deployments(namespace).Update returns.  The API server replaces the whole
\* object by the one sent, unless its resourceVersion is stale (a conflict).
UpdateReturn(d) ==
    /\ pc[d] = "update"
    /\ \E ok \in BOOLEAN :
         IF ok /\ deployments[dep[d].name].rv = dep[d].rv
         THEN /\ deployments' = [deployments EXCEPT ![dep[d].name] =
                    [@ EXCEPT !.replicas = dep[d].replicas,
                              !.annotations = dep[d].annotations,
                              !.rv = @ + 1]]
              /\ Succeed(d)
         ELSE /\ Fail(d, "failed to update deployment")
              /\ UNCHANGED deployments
    /\ UNCHANGED <<now, lastAction, recorded, recoveryCount, cooldownMu,
                   recoveryMu, todo, deleteCalled, frame>>

\* A variant that takes a count that is not set for no replica at all.
NewReplicasUnsetZero(replicas) ==
    (IF replicas = Nil THEN 0 ELSE replicas[1]) + 1

\* A variant that asks for the count the deployment already has.
NewReplicasSame(replicas) == IF replicas = Nil THEN 1 ELSE replicas[1]

\* currentReplicas + 1, with currentReplicas 1 when Spec.Replicas is nil.
NewReplicas(replicas) == (IF replicas = Nil THEN 1 ELSE replicas[1]) + 1

\* scaleDeployment: List returns; GetScale is called for the first item.
ListForScaleReturn(d) ==
    /\ pc[d] = "listForScale"
    /\ \E ok \in BOOLEAN :
         LET items == ListItems(action[d].Namespace, action[d].App) IN
         IF ~ok THEN Fail(d, "failed to list deployments")
         ELSE IF Len(items) = 0 THEN Fail(d, "no deployment")
         ELSE /\ dep' = [dep EXCEPT ![d] = Listed(Item0(items))]
              /\ pc' = [pc EXCEPT ![d] = "getScale"]
              /\ UNCHANGED <<alert, action, scale, outcome, lastMut,
                             succeeded>>
    /\ UNCHANGED <<now, lastAction, recorded, recoveryCount, cooldownMu,
                   recoveryMu, deployments, todo, deleteCalled, frame>>

\* A variant of scaleDeployment that does not look at the error of GetScale.
GetScaleReturnIgnored(d) ==
    /\ pc[d] = "getScale"
    /\ \E ok \in BOOLEAN :
         /\ scale' = [scale EXCEPT ![d] =
               [name |-> dep[d].name,
                replicas |-> NewReplicas(dep[d].replicas),
                rv |-> deployments[dep[d].name].rv]]
         /\ pc' = [pc EXCEPT ![d] = "updateScale"]
         /\ UNCHANGED <<alert, action, dep, outcome, lastMut, succeeded>>
    /\ UNCHANGED <<now, lastAction, recorded, recoveryCount, cooldownMu,
                   recoveryMu, deployments, todo, deleteCalled, frame>>

\* GetScale returns; scale.Spec.Replicas is set and UpdateScale is called.
GetScaleReturn(d) ==
    /\ pc[d] = "getScale"
    /\ \E ok \in BOOLEAN :
         IF ~ok THEN Fail(d, "failed to get scale")
         ELSE /\ scale' = [scale EXCEPT ![d] =
                    [name |-> dep[d].name,
                     replicas |-> NewReplicas(dep[d].replicas),
                     rv |-> deployments[dep[d].name].rv]]
              /\ pc' = [pc EXCEPT ![d] = "updateScale"]
              /\ UNCHANGED <<alert, action, dep, outcome, lastMut, succeeded>>
    /\ UNCHANGED <<now, lastAction, recorded, recoveryCount, cooldownMu,
                   recoveryMu, deployments, todo, deleteCalled, frame>>

\* UpdateScale returns.  The API server sets the replica count, unless the
\* Scale object's resourceVersion is stale (a conflict).
UpdateScaleReturn(d) ==
    /\ pc[d] = "updateScale"
    /\ \E ok \in BOOLEAN :
         IF ok /\ deployments[scale[d].name].rv = scale[d].rv
         THEN /\ deployments' = [deployments EXCEPT ![scale[d].name] =
                    [@ EXCEPT !.replicas = <<scale[d].replicas>>,
                              !.rv = @ + 1]]
              /\ Succeed(d)
         ELSE /\ Fail(d, "failed to scale")
              /\ UNCHANGED deployments
    /\ UNCHANGED <<now, lastAction, recorded, recoveryCount, cooldownMu,
                   recoveryMu, todo, deleteCalled, frame>>

\* ---------------------------------------------------------------- the clock
\* A variant of the clock that drops the records older than the window.
TickAgesOut ==
    /\ now < MaxTime
    /\ now' = now + 1
    /\ lastAction' = [k \in {x \in DOMAIN lastAction :
                                now + 1 - lastAction[x] < CooldownTime} |->
                         lastAction[k]]
    /\ recorded' = recorded
    /\ UNCHANGED <<recoveryCount, cooldownMu, recoveryMu, deployments, pc,
                   todo, alert, action, dep, scale, outcome, lastMut,
                   succeeded, deleteCalled, frame>>

Tick ==
    /\ now < MaxTime
    /\ now' = now + 1
    /\ UNCHANGED <<lastAction, recorded, recoveryCount, cooldownMu,
                   recoveryMu, deployments, pc, todo, alert, action, dep,
                   scale, outcome, lastMut, succeeded, deleteCalled, frame>>

\* ------------------------------------------------------ the specifications
\* A step of the delivery d in the body of its loop, or its reply.
Work(d) ==
    \/ Respond(d)
    \/ LockCooldownCheck(d)
    \/ CheckCooldown(d)
    \/ DeletePodReturn(d)
    \/ ListForRedeployReturn(d)
    \/ UpdateReturn(d)
    \/ ListForScaleReturn(d)
    \/ GetScaleReturn(d)
    \/ UpdateScaleReturn(d)
    \/ LockRecordCooldown(d)
    \/ RecordCooldown(d)
    \/ LockRecordRecovery(d)
    \/ RecordRecovery(d)

Next ==
    \/ Tick
    \/ \E d \in Deliveries :
          Receive(d, BodiesWithin) \/ NextAlert(d, AppAlerts) \/ Work(d)

\* Any interleaving of the two deliveries, all alerts for one app.
Spec == Init /\ [][Next]_vars

\* A delivery is in progress from its arrival to its reply.
InProgress(d) == pc[d] \notin {"idle", "done"}

\* The request arrives when no other delivery is in progress.
ReceiveAlone(d, bodies) ==
    /\ \A e \in Deliveries \ {d} : ~InProgress(e)
    /\ Receive(d, bodies)

NextSeq ==
    \/ Tick
    \/ \E d \in Deliveries :
          \/ ReceiveAlone(d, BodiesWithin)
          \/ NextAlert(d, Alerts)
          \/ Work(d)

\* The deliveries one after the other, never overlapping; alerts for any app.
SpecSeq == Init /\ [][NextSeq]_vars

\* The server is up in a cluster whose first deployment has no replica count.
InitUnset ==
    /\ LoadedWith(UnsetDeployments)
    /\ main = "serving"
    /\ clientset = <<"client">>

\* The deliveries one after the other, the replica count of nodejs-app unset.
SpecUnset == InitUnset /\ [][NextSeq]_vars

NextBody ==
    \E d \in Deliveries :
        \/ ReceiveAlone(d, Bodies)
        \/ NextAlert(d, AppAlerts)
        \/ Work(d)

\* The deliveries one after the other, with bodies of any length, at one
\* instant.
SpecBody == Init /\ [][NextBody]_vars

\* The alerts of the rules that name a pod of nodejs-app: firing, with one of
\* the three kinds of action.
PodAlerts ==
    {al \in AppAlerts : /\ Firing(al)
                         /\ al.labels.pod # ""
                         /\ al.labels.recovery_action \in
                                {"restart", "redeploy", "scale"}}

\* Firing alerts that name a pod and ask for an action, for the key of
\* nodejs-app and for another key.
KeyAlerts ==
    {al \in Alerts : /\ Firing(al)
                      /\ al.labels.pod # ""
                      /\ al.labels.namespace = "default"
                      /\ al.labels.recovery_action \in
                             {"restart", "redeploy", "scale"}}

\* The steps of a delivery up to its first cluster call and, when it makes
\* none, to its reply.
Start(d) ==
    \/ Receive(d, BodiesWithin)
    \/ NextAlert(d, PodAlerts)
    \/ LockCooldownCheck(d)
    \/ CheckCooldown(d)
    \/ Respond(d)

\* The first delivery's cluster calls never return; the second delivery's do.
NextStall ==
    \/ Tick
    \/ Start("d1")
    \/ Receive("d2", BodiesWithin)
    \/ NextAlert("d2", KeyAlerts) \/ Work("d2")

\* Both goroutines are scheduled whenever they can take a step, so a lock
\* that was taken is released; the cluster calls of the second delivery
\* return.
FairStall ==
    /\ WF_vars(Start("d1"))
    /\ WF_vars(\/ Receive("d2", BodiesWithin)
               \/ NextAlert("d2", KeyAlerts)
               \/ Work("d2"))

\* A cluster API that never answers the first delivery; alerts for any app.
SpecStall == Init /\ [][NextStall]_vars /\ FairStall

\* The alerts of the same rules about a second pod of nodejs-app.
SecondPodAlerts ==
    {[al EXCEPT !.labels.pod = "nodejs-app-xyz"] : al \in PodAlerts}

\* The number of alerts the loops have read so far.
Read == MaxAlerts - unsent - todo["d1"] - todo["d2"]

\* The first alert that is read is about the first pod, the alerts after it
\* are about the second pod.
NextPods ==
    \/ Tick
    \/ \E d \in Deliveries :
          \/ ReceiveAlone(d, BodiesWithin)
          \/ NextAlert(d, IF Read = 0 THEN PodAlerts ELSE SecondPodAlerts)
          \/ Work(d)

\* The deliveries one after the other, with alerts about two pods of one app.
SpecPods == Init /\ [][NextPods]_vars

\* Restart alerts under other keys than that of nodejs-app in default: the
\* rule of manifests/monitoring/prometheus-rules.yaml that sets no app label,
\* and a pod of nodejs-app in the namespace monitoring.
OtherKeyAlerts ==
    {[al EXCEPT !.labels.app = ""] :
        al \in {a \in PodAlerts : a.labels.recovery_action = "restart"}}
    \cup
    {[al EXCEPT !.labels.namespace = "monitoring"] :
        al \in {a \in PodAlerts : a.labels.recovery_action = "restart"}}

\* The first delivery carries alerts about nodejs-app in default, the second
\* alerts under the other keys.
NextKeys ==
    \/ Tick
    \/ Receive("d1", BodiesWithin)
    \/ NextAlert("d1", PodAlerts) \/ Work("d1")
    \/ Receive("d2", BodiesWithin)
    \/ NextAlert("d2", OtherKeyAlerts) \/ Work("d2")

\* Any interleaving of two deliveries whose alerts have different keys.
SpecKeys == Init /\ [][NextKeys]_vars

\* The steps of a delivery that take or release a lock: the bodies of
\* isCoolingDown, recordCooldown and recordRecovery.
LockStep(d) ==
    \/ LockCooldownCheck(d)
    \/ CheckCooldown(d)
    \/ LockRecordCooldown(d)
    \/ RecordCooldown(d)
    \/ LockRecordRecovery(d)
    \/ RecordRecovery(d)

\* Two deliveries at one instant, all alerts for one app.
NextLocks ==
    \E d \in Deliveries :
        Receive(d, BodiesWithin) \/ NextAlert(d, AppAlerts) \/ Work(d)

\* A goroutine that can take or release a lock is scheduled and does.
FairLocks == \A d \in Deliveries : WF_vars(LockStep(d))

\* Fair scheduling of the lock operations; a cluster call may take for ever.
SpecLocks == Init /\ [][NextLocks]_vars /\ FairLocks

\* The goroutine of a request that can take a step is scheduled and does, and
\* a cluster call that is in flight returns.
FairCalls ==
    \A d \in Deliveries : WF_vars(NextAlert(d, AppAlerts) \/ Work(d))

\* Fair scheduling of the deliveries, every cluster call returns.
SpecCalls == Init /\ [][NextLocks]_vars /\ FairCalls

\* ------------------------------------------------------------- func main
\* What handleWebhook and the clock leave alone in a step of main.
served == <<now, lastAction, recorded, recoveryCount, cooldownMu, recoveryMu,
            deployments, pc, req, todo, unsent, alert, action, dep, scale,
            resp, outcome, lastMut, succeeded, deleteCalled>>

\* A variant of main that logs a startup failure and carries on.
FatalLogged == main' = "HandleFunc"

\* log.Fatalf / log.Fatal: the process exits.
Fatal == main' = "exited"

\* rest.InClusterConfig returns.
InClusterConfig ==
    /\ main = "InClusterConfig"
    /\ \E ok \in BOOLEAN :
         IF ok THEN main' = "NewForConfig" ELSE Fatal
    /\ UNCHANGED <<served, clientset, health>>

\* kubernetes.NewForConfig returns and its result is assigned to clientset.
NewForConfig ==
    /\ main = "NewForConfig"
    /\ \E ok \in BOOLEAN :
         IF ok THEN main' = "HandleFunc" /\ clientset' = <<"client">>
         ELSE Fatal /\ clientset' = Nil
    /\ UNCHANGED <<served, health>>

\* The two calls of http.HandleFunc, and the port.
HandleFunc ==
    /\ main = "HandleFunc"
    /\ main' = "ListenAndServe"
    /\ UNCHANGED <<served, clientset, health>>

\* http.ListenAndServe binds the port and accepts requests, or returns an
\* error at once.
ListenAndServe ==
    /\ main = "ListenAndServe"
    /\ \E ok \in BOOLEAN :
         IF ok THEN main' = "serving" ELSE Fatal
    /\ UNCHANGED <<served, clientset, health>>

\* ------------------------------------------------------------ handleHealth
\* A variant of the probe that reports the engine unavailable while a cluster
\* call of a delivery is in flight.
handleHealthUnlessBusy ==
    /\ main = "serving"
    /\ health' = IF \E d \in Deliveries :
                       pc[d] \in {"deletePod", "listForRedeploy", "update",
                                  "listForScale", "getScale", "updateScale"}
                 THEN <<503, "busy">>
                 ELSE <<StatusOK, "healthy">>
    /\ UNCHANGED <<served, main, clientset>>

\* GET /health, or any other request to /health: 200 and "healthy".
handleHealth ==
    /\ main = "serving"
    /\ health' = <<StatusOK, "healthy">>
    /\ UNCHANGED <<served, main, clientset>>

\* The process from its start: main, then the two handlers, with alerts that
\* name a pod of nodejs-app.
NextMain ==
    \/ InClusterConfig
    \/ NewForConfig
    \/ HandleFunc
    \/ ListenAndServe
    \/ handleHealth
    \/ Tick
    \/ \E d \in Deliveries :
          Receive(d, BodiesWithin) \/ NextAlert(d, PodAlerts) \/ Work(d)

SpecMain == InitMain /\ [][NextMain]_vars

\* ----------------------------------------------------- the places of a delivery
\* A cluster call of the delivery is in flight.
CallPcs ==
    {"deletePod", "listForRedeploy", "update", "listForScale", "getScale",
     "updateScale"}

\* executeRecoveryAction returned nil and the delivery is recording it.
RecordPcs ==
    {"recordCooldown", "recordCooldownLocked", "recordRecovery",
     "recordRecoveryLocked"}

\* The delivery is in the body of the loop, past the translation.
BodyPcs == {"isCoolingDown", "isCoolingDownLocked"} \cup CallPcs \cup RecordPcs

\* The errors executeRecoveryAction returns, as the handler logs them.
Errors ==
    {"no pod name", "unknown recovery action", "failed to delete pod",
     "failed to list deployments", "no deployment",
     "failed to update deployment", "failed to get scale", "failed to scale"}

\* The cooldown key of the alert the delivery is processing.
Key(d) == CooldownKey(action[d])

\* The time m[key] is less than a cooldown window ago.
Within(m, key) == Has(m, key) /\ now - m[key] < CooldownTime

\* The firing alerts without a recovery_action label.
Unlabelled ==
    [status : {"firing"},
     labels : [recovery_action : {""}, pod : PodLabels,
               namespace : NamespaceLabels, app : AppLabels,
               alertname : {"HighMemoryUsage"}]]

\* The request is a POST whose body decoded.
Decoded(d) ==
    \E over \in BOOLEAN :
        req[d] = [method |-> "POST", decodes |-> TRUE, over |-> over]

\* ------------------------------------------------------------------ claims

\* C1: when the identical firing restart alert arrives in two deliveries
\* within the cooldown window, deletePod is invoked once in total: within the
\* first window, no two deliveries have a deletePod call in flight for the same
\* action.
C1_DeletePodOnce ==
    now < CooldownTime =>
        \A d, e \in Deliveries :
            (d # e /\ pc[d] = "deletePod" /\ pc[e] = "deletePod")
                => action[d] # action[e]

\* C2, as stated: of two firing restart alerts with the same key processed one
\* after the other within the window, only one leads to a deletePod call: no
\* deletePod call is issued for a key for which one was issued before within
\* the window.
C2_OneDeleteCall ==
    [][\A d \in Deliveries :
          (pc[d] = "isCoolingDownLocked" /\ pc'[d] = "deletePod")
              => ~(now < CooldownTime /\ Key(d) \in deleteCalled)]_vars

\* C2, amended: when alerts with the same key are processed one after the
\* other, no cluster call is in flight for a key less than a window after a
\* mutation for the key succeeded; so after a deletePod that succeeded the
\* second alert is skipped, and the two never both mutate.
C2_NoCallAfterSuccess ==
    \A d \in Deliveries : pc[d] \in CallPcs => ~Within(lastMut, Key(d))

\* C2: the second restart alert is at the cooldown check, less than a window
\* after the deletePod call of the first one succeeded.
C2_Witness ==
    \E d \in Deliveries :
        /\ pc[d] = "isCoolingDownLocked"
        /\ action[d].Action = "restart" /\ action[d].Pod # ""
        /\ DOMAIN recoveryCount = {"restart"}
        /\ Key(d) \in deleteCalled
        /\ Within(lastMut, Key(d))
        /\ isCoolingDown(Key(d))

\* C3: any two successful mutations for the same cooldown key are at least a
\* cooldown window apart: a mutation succeeds for a key only if none
\* succeeded for it within the window.
C3_MutationsApart ==
    [][\A d \in Deliveries :
          (pc[d] \in CallPcs /\ pc'[d] = "recordCooldown")
              => ~Within(lastMut, Key(d))]_vars

\* C4: the cooldown is recorded only after a successful mutation: a step in
\* which executeRecoveryAction returns an error leaves lastAction as it is,
\* and every change of lastAction is the write of the current time under the
\* key of an alert whose mutation has just succeeded in the writing delivery.
C4_RecordOnlyAfterSuccess ==
    [][/\ \A d \in Deliveries :
             (pc'[d] # pc[d] /\ outcome'[d] \in Errors /\ pc[d] \in BodyPcs)
                 => lastAction' = lastAction
       /\ lastAction' # lastAction =>
             \E d \in Deliveries :
                 /\ pc[d] = "recordCooldownLocked"
                 /\ pc'[d] = "recordRecovery"
                 /\ outcome[d] = "ok"
                 /\ Has(lastMut, Key(d))
                 /\ lastAction' = Put(lastAction, Key(d), now)]_vars

\* C4: the alert of one delivery failed, and the other delivery has written
\* the cooldown of an alert whose mutation succeeded.
C4_Witness ==
    \E d, e \in Deliveries :
        /\ outcome[d] \in Errors
        /\ pc[e] = "recordRecovery"
        /\ outcome[e] = "ok"
        /\ DOMAIN lastAction = {Key(e)}

\* C5: a failed attempt does not start a cooldown: the guard skips an alert
\* only if a mutation for its key has succeeded and the record of the key is
\* less than a window old; otherwise the alert goes to the executor.
C5_FailureDoesNotSuppress ==
    [][\A d \in Deliveries :
          (/\ pc[d] = "isCoolingDownLocked" /\ pc'[d] # pc[d]
           /\ ~(Has(lastMut, Key(d)) /\ Within(lastAction, Key(d))))
              => \/ pc'[d] \in CallPcs
                 \/ outcome'[d] \in {"no pod name", "unknown recovery action"}]_vars

\* C5: the deletePod call of an alert failed, no mutation has succeeded for
\* the key, and the next alert of the delivery has a new deletePod call in
\* flight.
C5_Witness ==
    \E d \in Deliveries :
        /\ outcome[d] = "failed to delete pod"
        /\ pc[d] = "deletePod"
        /\ ~Has(lastMut, Key(d))

\* C6: once the window has fully elapsed since the record of a key, an alert
\* for the key with a valid action is not skipped: its first cluster call is
\* issued.
C6_ExpiredCooldownActs ==
    [][\A d \in Deliveries :
          (/\ pc[d] = "isCoolingDownLocked" /\ pc'[d] # pc[d]
           /\ Has(lastAction, Key(d))
           /\ now - lastAction[Key(d)] >= CooldownTime
           /\ action[d].Action \in {"restart", "redeploy", "scale"}
           /\ (action[d].Action = "restart" => action[d].Pod # ""))
              => pc'[d] \in CallPcs]_vars

\* C6: the first delivery, alone, has recorded a cooldown for a key and has a
\* cluster call in flight for a later alert with the same key.
C6_Witness ==
    /\ pc["d2"] = "idle"
    /\ pc["d1"] \in CallPcs
    /\ Has(lastAction, Key("d1"))
    /\ now - lastAction[Key("d1")] >= CooldownTime

\* C7: an alert whose status is not "firing" is neither translated nor acted
\* on: whatever a delivery translates, checks, executes or records is a firing
\* alert, and out of the loop body it holds no alert and no action.
C7_OnlyFiringAlertsAct ==
    \A d \in Deliveries :
        IF pc[d] \in BodyPcs
        THEN alert[d] \in Alerts /\ alert[d].status = "firing"
        ELSE alert[d] = NoAlert /\ action[d] = None

\* C7: the alert the delivery read last was not firing, and the delivery is
\* back at the head of the loop.
C7_Witness ==
    \E d \in Deliveries :
        outcome[d] = "notfiring" /\ pc[d] = "loop" /\ action[d] = None

\* C8: parseRecoveryAction returns no action for a firing alert without a
\* recovery_action label, and whatever a delivery checks, executes or records
\* is the translation of an alert that has the label.
C8_UnlabelledAlertsSkipped ==
    /\ \A al \in Unlabelled : parseRecoveryAction(al) = None
    /\ \A d \in Deliveries :
           pc[d] \in BodyPcs =>
               /\ alert[d].labels.recovery_action # ""
               /\ action[d] = parseRecoveryAction(alert[d])
               /\ action[d] # None

\* C8: the alert the delivery read last was firing and had no recovery_action
\* label; the delivery is back at the head of the loop and no error is logged.
C8_Witness ==
    \E d \in Deliveries :
        outcome[d] = "nolabel" /\ pc[d] = "loop" /\ action[d] = None

\* C9: a POST whose body decodes is answered at most once, with 200, and only
\* when the loop has read every alert of the batch and is done with the last.
C9_OneReplyAfterTheBatch ==
    \A d \in Deliveries :
        /\ Len(resp[d]) <= 1
        /\ (pc[d] = "done") <=> (Len(resp[d]) = 1)
        /\ (Decoded(d) /\ resp[d] # <<>>) =>
               /\ resp[d] = <<StatusOK>>
               /\ todo[d] = 0
               /\ alert[d] = NoAlert /\ action[d] = None

\* C9: the first delivery, alone, has replied 200 to a batch of all the
\* alerts there are, of which one led to a mutation that succeeded.
C9_Witness ==
    \E d \in Deliveries :
        /\ Decoded(d) /\ resp[d] = <<StatusOK>>
        /\ pc["d2"] = "idle"
        /\ lastMut # <<>>
        /\ unsent = 0

\* C10: the failure of an alert does not end the batch: a delivery whose last
\* finished alert failed is still in its loop and has sent no reply.
C10_FailureKeepsTheLoop ==
    \A d \in Deliveries :
        outcome[d] \in Errors =>
            pc[d] \in {"loop"} \cup BodyPcs /\ resp[d] = <<>>

\* C10: an alert of the delivery failed and the alert after it has a cluster
\* call in flight.
C10_Witness ==
    \E d \in Deliveries : outcome[d] \in Errors /\ pc[d] \in CallPcs

\* Nothing of an alert is left with the delivery: no alert, no action, no
\* object of the cluster, no lock.
Clean(d) ==
    /\ alert[d] = NoAlert /\ action[d] = None
    /\ dep[d] = NoDep /\ scale[d] = NoScale
    /\ cooldownMu # d /\ recoveryMu # d

\* C11: a delivery processes its alerts one at a time in array order: it
\* reads the next alert, one position further, only at the head of the loop
\* with nothing of the alert before left to do, and as long as it is in the
\* loop body its checks, calls and writes are those of the alert it read last.
C11_OneAlertAtATime ==
    [][\A d \in Deliveries :
          /\ (pc[d] # "idle" /\ todo'[d] # todo[d]) =>
                 /\ todo'[d] = todo[d] - 1
                 /\ pc[d] = "loop" /\ Clean(d)
          /\ (pc[d] \in BodyPcs /\ pc'[d] \in BodyPcs) =>
                 /\ todo'[d] = todo[d]
                 /\ alert'[d] = alert[d] /\ action'[d] = action[d]
          /\ (pc[d] \in BodyPcs /\ pc'[d] \notin BodyPcs) =>
                 pc'[d] = "loop" /\ Clean(d)']_vars

\* C11: the delivery has written the cooldown and the counter of an alert
\* whose mutation succeeded, and is at the cooldown check of the next one.
C11_Witness ==
    \E d \in Deliveries :
        /\ pc[d] = "isCoolingDown"
        /\ outcome[d] = "ok"
        /\ Has(lastAction, Key(d))
        /\ recoveryCount # <<>>

\* C12: the locks are held for the map accesses only: a delivery holds
\* cooldownMu exactly while it is inside isCoolingDown or recordCooldown, and
\* recoveryMu exactly while it is inside recordRecovery; so it holds neither
\* while one of its cluster calls is in flight.
C12_NoLockAcrossCalls ==
    \A d \in Deliveries :
        /\ (cooldownMu = d) <=>
               (pc[d] \in {"isCoolingDownLocked", "recordCooldownLocked"})
        /\ (recoveryMu = d) <=> (pc[d] = "recordRecoveryLocked")
        /\ pc[d] \in CallPcs => cooldownMu # d /\ recoveryMu # d

\* C12: a cluster call of one delivery is in flight while the other delivery
\* holds cooldownMu.
C12_Witness ==
    \E d, e \in Deliveries :
        d # e /\ pc[d] \in CallPcs /\ cooldownMu = e

\* C13: a cluster call that never returns to one delivery does not stall the
\* other: the second delivery, once it has arrived, works through all its
\* alerts, whatever their keys, and gets to its reply.
C13_NoStall ==
    InProgress("d2") ~> (pc["d2"] = "done")

\* C13: a call of the first delivery is in flight for good, and the second
\* delivery has replied after it recorded a cooldown for another key.
C13_Witness ==
    /\ pc["d1"] \in CallPcs
    /\ pc["d2"] = "done" /\ resp["d2"] = <<StatusOK>>
    /\ \E key \in DOMAIN lastAction : key # Key("d1")
    /\ recoveryCount # <<>>

\* The alert a delivery is at leaves the cooldown check in this step without
\* being skipped for its cooldown.
Executes(d) ==
    /\ pc[d] = "isCoolingDownLocked" /\ pc'[d] # pc[d]
    /\ ~isCoolingDown(Key(d))

\* The step writes nothing to the cluster, to the cooldowns or to the counters
\* and issues no call.
NothingDone(d) ==
    /\ pc'[d] = "loop"
    /\ UNCHANGED <<deployments, lastAction, recoveryCount, lastMut,
                   deleteCalled>>

\* C14: a restart action with an empty pod name ends with the error of
\* restartPod in the step that runs the executor: no Delete and no other
\* cluster call is issued, and no cooldown and no counter is written; such an
\* action is never inside a call or a record.
C14_EmptyPodIsAnError ==
    [][\A d \in Deliveries :
          /\ (Executes(d) /\ action[d].Action = "restart"
                          /\ action[d].Pod = "") =>
                 NothingDone(d) /\ outcome'[d] = "no pod name"
          /\ (action'[d].Action = "restart" /\ action'[d].Pod = "") =>
                 pc'[d] \notin CallPcs \cup RecordPcs]_vars

\* C14: an alert asking for a restart without a pod got its error, and the
\* engine has neither a cooldown nor a counter.
C14_Witness ==
    \E d \in Deliveries :
        /\ outcome[d] = "no pod name"
        /\ lastAction = <<>> /\ recoveryCount = <<>> /\ deleteCalled = {}

\* C15: an action whose kind is none of restart, redeploy and scale ends with
\* the unknown-action error in the step that runs the executor: no cluster
\* call is issued, and no cooldown and no counter is written; such an action
\* is never inside a call or a record.
C15_UnknownKindIsAnError ==
    [][\A d \in Deliveries :
          /\ (Executes(d)
                /\ action[d].Action \notin {"restart", "redeploy", "scale"}) =>
                 NothingDone(d) /\ outcome'[d] = "unknown recovery action"
          /\ (action'[d] # None
                /\ action'[d].Action \notin {"restart", "redeploy", "scale"}) =>
                 pc'[d] \notin CallPcs \cup RecordPcs]_vars

\* C15: a firing alert labelled with an unknown kind got its error, and the
\* engine has neither a cooldown nor a counter.
C15_Witness ==
    \E d \in Deliveries :
        /\ outcome[d] = "unknown recovery action"
        /\ lastAction = <<>> /\ recoveryCount = <<>>
        /\ deployments = InitialDeployments

\* A scale action of the delivery succeeds in this step: UpdateScale returned
\* without an error.
ScaleSucceeds(d) ==
    /\ pc[d] = "updateScale" /\ pc'[d] = "recordCooldown"

\* The deployment a label lookup of the delivery's action operates on: the
\* first item of the list result.
FirstMatch(d) == Head(ListItems(action[d].Namespace, action[d].App))

\* C16: a scale action that succeeds on its own sets the replica count of the
\* first deployment matching the app label from n to exactly n + 1, by the
\* UpdateScale call, and leaves everything else of the deployment alone.
C16_ScaleAddsOne ==
    [][\A d \in Deliveries :
          ScaleSucceeds(d) =>
              /\ action[d].Action = "scale"
              /\ ListItems(action[d].Namespace, action[d].App) # <<>>
              /\ scale[d].name = FirstMatch(d)
              /\ deployments[FirstMatch(d)].replicas # Nil
              /\ deployments'[FirstMatch(d)].replicas =
                     <<deployments[FirstMatch(d)].replicas[1] + 1>>
              /\ deployments'[FirstMatch(d)].annotations =
                     deployments[FirstMatch(d)].annotations]_vars

\* C16: a scale action succeeded and the deployment that had two replicas has
\* three.
C16_Witness ==
    \E d \in Deliveries :
        /\ outcome[d] = "ok" /\ action[d].Action = "scale"
        /\ pc[d] = "recordCooldown"
        /\ deployments["nodejs-app"].replicas = <<3>>
        /\ deployments["nodejs-app"].rv = 1

\* C17: every scale action that succeeds strictly increases the replica count
\* of the deployment, also when two scale actions overlap.
C17_EveryScaleIncreases ==
    [][\A d \in Deliveries :
          ScaleSucceeds(d) =>
              deployments'[scale[d].name].replicas[1] >
                  deployments[scale[d].name].replicas[1]]_vars

\* The places of redeployDeployment and scaleDeployment after the lookup.
AfterListPcs == {"update", "getScale", "updateScale"}

\* The label lookup of the delivery's action matches no deployment.
NoMatch(d) == ListItems(action[d].Namespace, action[d].App) = <<>>

\* C18: a redeploy or scale action whose lookup matches no deployment ends in
\* the step in which List returns, with an error: it issues no Update,
\* GetScale or UpdateScale call (a delivery in one of these calls has a
\* matching deployment) and writes no cooldown and no counter.
C18_NoMatchIsAnError ==
    [][\A d \in Deliveries :
          /\ (pc[d] \in {"listForRedeploy", "listForScale"}
                /\ pc'[d] # pc[d] /\ NoMatch(d)) =>
                 /\ NothingDone(d)
                 /\ outcome'[d] \in {"no deployment",
                                     "failed to list deployments"}
          /\ pc'[d] \in AfterListPcs \cup RecordPcs =>
                 \/ action'[d].Action = "restart"
                 \/ \E n \in DOMAIN deployments :
                        /\ deployments[n].namespace = action'[d].Namespace
                        /\ deployments[n].app = action'[d].App]_vars

\* C18: a lookup found nothing, no cooldown was set, and the next alert with
\* the same key is past the cooldown check and at its own lookup.
C18_Witness ==
    \E d \in Deliveries :
        /\ outcome[d] = "no deployment"
        /\ pc[d] \in {"listForRedeploy", "listForScale"}
        /\ NoMatch(d) /\ ~Has(lastAction, Key(d))

\* A redeploy action of the delivery succeeds in this step: Update returned
\* without an error.
RedeploySucceeds(d) ==
    /\ pc[d] = "update" /\ pc'[d] = "recordCooldown"

\* C19: a redeploy action that succeeds leaves the restarted-at annotation on
\* the first deployment its lookup matches, whether or not that deployment had
\* annotations before, and modifies no other deployment.
C19_FirstMatchAnnotated ==
    [][\A d \in Deliveries :
          RedeploySucceeds(d) =>
              /\ action[d].Action = "redeploy" /\ ~NoMatch(d)
              /\ Has(deployments'[FirstMatch(d)].annotations, RestartedAt)
              /\ \A n \in DOMAIN deployments \ {FirstMatch(d)} :
                     deployments'[n] = deployments[n]]_vars

\* C19: a redeploy succeeded; the first of the two matching deployments, which
\* had no annotations, has the annotation, and the second is as it was.
C19_Witness ==
    \E d \in Deliveries :
        /\ outcome[d] = "ok" /\ action[d].Action = "redeploy"
        /\ pc[d] = "recordCooldown"
        /\ Len(ListItems(action[d].Namespace, action[d].App)) = 2
        /\ DOMAIN deployments["nodejs-app"].annotations = {RestartedAt}
        /\ deployments["nodejs-app-v2"] = InitialDeployments["nodejs-app-v2"]

\* The annotations of a pod template other than the restarted-at one.
OtherAnnotations(annotations) ==
    [k \in DOMAIN annotations \ {RestartedAt} |-> annotations[k]]

\* C20: the Update call of a redeploy action, whether it succeeds or fails,
\* changes nothing of the target deployment except the restarted-at
\* annotation: the replica count, the labels and the other annotations are
\* after the step what the cluster held just before it, also when a scale
\* action changed the deployment after redeploy's List; no other deployment
\* changes.
C20_RedeployKeepsTheSpec ==
    [][\A d \in Deliveries :
          (pc[d] = "update" /\ pc'[d] # pc[d]) =>
              /\ deployments'[dep[d].name].replicas =
                     deployments[dep[d].name].replicas
              /\ deployments'[dep[d].name].namespace =
                     deployments[dep[d].name].namespace
              /\ deployments'[dep[d].name].app = deployments[dep[d].name].app
              /\ OtherAnnotations(deployments'[dep[d].name].annotations) =
                     OtherAnnotations(deployments[dep[d].name].annotations)
              /\ \A n \in DOMAIN deployments \ {dep[d].name} :
                     deployments'[n] = deployments[n]]_vars

\* C20: a redeploy action listed the deployment with two replicas, a scale
\* action then set three, and redeploy's Update call is in flight with the
\* object it listed.
C20_Witness ==
    \E d \in Deliveries :
        /\ pc[d] = "update" /\ action[d].Action = "redeploy"
        /\ dep[d].name = "nodejs-app" /\ dep[d].replicas = <<2>>
        /\ deployments["nodejs-app"].replicas = <<3>>
        /\ dep[d].rv < deployments["nodejs-app"].rv

\* The calls of each kind of action, in the order the code issues them: each
\* pair is a place and the place the code goes to next.
CallOrder ==
    {<<"isCoolingDownLocked", "deletePod">>,
     <<"isCoolingDownLocked", "listForRedeploy">>,
     <<"listForRedeploy", "update">>,
     <<"isCoolingDownLocked", "listForScale">>,
     <<"listForScale", "getScale">>,
     <<"getScale", "updateScale">>}

\* The last call of each kind of action.
LastCallOf(kind) ==
    CASE kind = "restart" -> "deletePod"
      [] kind = "redeploy" -> "update"
      [] kind = "scale" -> "updateScale"
      [] OTHER -> "none"

\* The calls of each kind of action.
CallsOf(kind) ==
    CASE kind = "restart" -> {"deletePod"}
      [] kind = "redeploy" -> {"listForRedeploy", "update"}
      [] kind = "scale" -> {"listForScale", "getScale", "updateScale"}
      [] OTHER -> {}

\* C21: each kind of action runs its own calls only, in their order and with
\* the target of its alert: restart one Delete of the alert's pod in the
\* alert's namespace and no deployment call; redeploy a List and then an
\* Update of the first match; scale a List, a GetScale and an UpdateScale of
\* the first match; an action succeeds from its last call only.
C21_OwnCallSequence ==
    [][\A d \in Deliveries :
          /\ pc'[d] \in CallPcs =>
                 /\ pc'[d] \in CallsOf(action'[d].Action)
                 /\ action'[d].Pod = alert'[d].labels.pod
                 /\ action'[d].App = alert'[d].labels.app
                 /\ action'[d].Namespace \in {alert'[d].labels.namespace,
                                              "default"}
          /\ pc'[d] = "deletePod" =>
                 /\ action'[d].Pod # ""
                 /\ dep'[d] = NoDep /\ scale'[d] = NoScale
          /\ pc'[d] \in {"update", "getScale", "updateScale"} =>
                 dep'[d].name =
                     Head(ListItems(action'[d].Namespace, action'[d].App))
          /\ pc'[d] = "updateScale" => scale'[d].name = dep'[d].name
          /\ (pc'[d] # pc[d] /\ pc'[d] \in CallPcs) =>
                 <<pc[d], pc'[d]>> \in CallOrder
          /\ (pc[d] \in CallPcs /\ pc'[d] \notin CallPcs) =>
                 \/ pc'[d] = "loop" /\ outcome'[d] \in Errors
                 \/ /\ pc'[d] = "recordCooldown"
                    /\ pc[d] = LastCallOf(action[d].Action)]_vars

\* C21: the sample alert (restart of pod nodejs-app-abc of nodejs-app in the
\* namespace default) was delivered alone: one Delete call was issued, it
\* succeeded, and the reply is the acknowledgment.
C21_Witness ==
    \E d \in Deliveries :
        /\ pc[d] = "done" /\ resp[d] = <<StatusOK>> /\ Decoded(d)
        /\ \A e \in Deliveries \ {d} : pc[e] = "idle"
        /\ unsent = MaxAlerts - 1
        /\ deleteCalled = {"default/nodejs-app"}
        /\ DOMAIN lastMut = {"default/nodejs-app"}
        /\ recoveryCount = [k \in {"restart"} |-> 1]
        /\ deployments = InitialDeployments

\* The kinds of action the executor knows.
Kinds == {"restart", "redeploy", "scale"}

\* The counters after one more recovery of the kind.
Counted(kind) ==
    [k \in DOMAIN recoveryCount \cup {kind} |->
        IF k = kind THEN (IF Has(recoveryCount, k) THEN recoveryCount[k] ELSE 0) + 1
        ELSE recoveryCount[k]]

\* C22: the counters change only when a delivery whose action succeeded
\* writes its record, and then the counter of the action's kind goes up by
\* one and no other counter changes; every action that succeeded is counted
\* before its delivery goes on, only actions that succeeded get to the record,
\* and only the three kinds are ever counted.
C22_CountersCountSuccesses ==
    [][/\ recoveryCount' # recoveryCount =>
              \E d \in Deliveries :
                  /\ pc[d] = "recordRecoveryLocked" /\ pc'[d] = "loop"
                  /\ outcome[d] = "ok"
                  /\ action[d].Action \in Kinds
                  /\ recoveryCount' = Counted(action[d].Action)
       /\ \A d \in Deliveries :
              /\ (pc[d] \in RecordPcs /\ pc'[d] \notin RecordPcs) =>
                     recoveryCount' = Counted(action[d].Action)
              /\ (pc[d] \notin RecordPcs /\ pc'[d] \in RecordPcs) =>
                     /\ outcome'[d] = "ok"
                     /\ pc[d] = LastCallOf(action[d].Action)
       /\ DOMAIN recoveryCount' \subseteq Kinds]_vars

\* C22: one action succeeded and was counted, the alert after it was cooled
\* down or failed, no record is pending, and the counters hold that one
\* recovery.
C22_Witness ==
    \E d \in Deliveries, k \in Kinds :
        /\ recoveryCount = [x \in {k} |-> 1]
        /\ outcome[d] \in Errors \cup {"cooldown"}
        /\ \A e \in Deliveries : pc[e] \notin BodyPcs

\* The value of a label, or the fallback when the label is absent or empty.
OrElse(label, fallback) == IF label = "" THEN fallback ELSE label

\* C23: the descriptor of the alert a delivery is processing has the defaults
\* filled in: the namespace is "default" and the app is "unknown" when their
\* labels are absent or empty, the pod, the kind and the alert name are the
\* labels as given; the cooldown key of an alert without an app label is the
\* namespace followed by "/unknown".
C23_DescriptorDefaults ==
    \A d \in Deliveries :
        action[d] # None =>
            /\ action[d].Action = alert[d].labels.recovery_action
            /\ action[d].AlertName = alert[d].labels.alertname
            /\ action[d].Pod = alert[d].labels.pod
            /\ action[d].Namespace =
                   OrElse(alert[d].labels.namespace, "default")
            /\ action[d].App = OrElse(alert[d].labels.app, "unknown")
            /\ alert[d].labels.app = "" =>
                   Key(d) = action[d].Namespace \o "/unknown"

\* The translation of the delivery's alert happens in this step.
Parses(d) == pc[d] = "loop" /\ pc'[d] = "isCoolingDown"

\* C24: the translation depends on the labels of the alert only: two
\* deliveries whose alerts have equal labels hold equal descriptors, whenever
\* and in whatever state of the cooldown map, the counters and the cluster
\* each was translated, and the descriptor is that of the same labels under
\* any other status; the step of the translation changes no shared state and
\* no alert or descriptor of another delivery.
C24_ParseIsPure ==
    [][\A d \in Deliveries :
          /\ \A e \in Deliveries :
                 (action'[d] # None /\ action'[e] # None
                     /\ alert'[d].labels = alert'[e].labels) =>
                     action'[d] = action'[e]
          /\ Parses(d) =>
                 /\ \A s \in Statuses :
                        action'[d] =
                            parseRecoveryAction([status |-> s,
                                                 labels |-> alert'[d].labels])
                 /\ UNCHANGED <<now, lastAction, recoveryCount, cooldownMu,
                                recoveryMu, deployments, lastMut,
                                deleteCalled, frame>>
                 /\ \A e \in Deliveries \ {d} :
                        alert'[e] = alert[e] /\ action'[e] = action[e]]_vars

\* C24: two deliveries hold alerts with equal labels and equal descriptors,
\* one of them past its action and its cooldown record, the other one just
\* translated.
C24_Witness ==
    \E d, e \in Deliveries :
        /\ d # e
        /\ pc[d] \in {"recordRecovery", "recordRecoveryLocked"}
        /\ pc[e] = "isCoolingDown"
        /\ alert[d].labels = alert[e].labels /\ action[d] = action[e]
        /\ Has(lastAction, Key(e)) /\ ~Has(recoveryCount, action[e].Action)

\* The request of the delivery arrives in this step.
Arrives(d) == pc[d] = "idle" /\ pc'[d] # "idle"

\* The delivery was turned away with the status code: it has this one reply,
\* has read no alert and holds nothing.
Rejected(d, code) ==
    /\ pc[d] = "done" /\ resp[d] = <<code>>
    /\ todo[d] = 0 /\ outcome[d] = "none" /\ Clean(d)

\* The step leaves the cooldowns, the counters, the cluster and the calls
\* alone and takes no alert from the sender.
NothingTouched ==
    UNCHANGED <<lastAction, recoveryCount, deployments, lastMut, deleteCalled,
                cooldownMu, recoveryMu, unsent, todo, alert, action>>

\* C25: a request whose method is not POST is answered with 405 in the step
\* in which it arrives; that step decodes no body, takes no alert and changes
\* no cooldown, counter or cluster object, and the delivery does nothing
\* afterwards.
C25_OtherMethodsGet405 ==
    [][\A d \in Deliveries :
          /\ (Arrives(d) /\ req'[d].method # "POST") =>
                 /\ NothingTouched
                 /\ DOMAIN req'[d] = {"method"}
                 /\ Rejected(d, StatusMethodNotAllowed)'
          /\ (pc[d] # "idle" /\ req[d].method # "POST") =>
                 /\ Rejected(d, StatusMethodNotAllowed)
                 /\ Rejected(d, StatusMethodNotAllowed)']_vars

\* C25: a GET request was answered with 405 while the sender still has all
\* its alerts and the engine has no cooldown and no counter.
C25_Witness ==
    \E d \in Deliveries :
        /\ req[d] = [method |-> "GET"]
        /\ Rejected(d, StatusMethodNotAllowed)
        /\ unsent = MaxAlerts
        /\ lastAction = <<>> /\ recoveryCount = <<>> /\ deleteCalled = {}

\* The request of the delivery is a POST whose body does not decode or is
\* longer than 1 MiB.
BadBody(d) ==
    \E decodes, over \in BOOLEAN :
        /\ req[d] = [method |-> "POST", decodes |-> decodes, over |-> over]
        /\ ~decodes \/ over

\* C26: a POST request whose body does not decode, or is longer than 1 MiB,
\* has been answered with 400 and nothing else: it has read no alert, issued
\* no call and written no cooldown and no counter.
C26_BadBodiesGet400 ==
    \A d \in Deliveries :
        BadBody(d) => Rejected(d, StatusBadRequest)

\* C27: the engine never serves a webhook without a client: once the handlers
\* are registered the client exists, a delivery is in progress only while the
\* server is serving with a client, a process that failed to get its
\* configuration or its client has exited without having served a request,
\* and every cluster call is made with a client.
C27_NoServiceWithoutClient ==
    /\ main \in {"HandleFunc", "ListenAndServe", "serving"} => clientset # Nil
    /\ clientset = Nil => main \in {"InClusterConfig", "NewForConfig", "exited"}
    /\ \A d \in Deliveries :
           /\ pc[d] # "idle" => main = "serving" /\ clientset # Nil
           /\ pc[d] \in CallPcs => clientset = <<"client">>
    /\ main = "exited" => \A d \in Deliveries : pc[d] = "idle" /\ resp[d] = <<>>

\* C27: the server went through its startup, and a delivery has a cluster
\* call in flight with the client main created.
C27_Witness ==
    \E d \in Deliveries :
        /\ main = "serving" /\ clientset = <<"client">>
        /\ pc[d] \in CallPcs

\* C28: the reply to GET /health is 200 with the body "healthy" in every
\* state of the serving engine: no reply was ever anything else, and in every
\* state the handler is ready to give that reply, whatever the cooldown map,
\* the counters, the locks and the cluster calls in flight.
C28_HealthAlwaysHealthy ==
    /\ health \in {<<>>, <<StatusOK, "healthy">>}
    /\ main = "serving" =>
           ENABLED (handleHealth /\ health' = <<StatusOK, "healthy">>)

\* C28: a probe was answered "healthy"; both deliveries are in progress, one
\* with a cluster call in flight and one holding the cooldown lock to write
\* its record.
C28_Witness ==
    \E d, e \in Deliveries :
        /\ health = <<StatusOK, "healthy">>
        /\ pc[d] \in CallPcs
        /\ cooldownMu = e /\ pc[e] = "recordCooldownLocked"

\* C29: the cooldown check of a delivery skips the alert exactly when its key
\* has a record that is less than a window old (a record exactly one window
\* old does not count, a key without a record never does), and it changes no
\* record; the cooldown record of a delivery sets the entry of its key to the
\* present time and leaves every other entry as it was.
C29_CheckAndRecord ==
    [][\A d \in Deliveries :
          /\ (pc[d] = "isCoolingDownLocked" /\ pc'[d] # pc[d]) =>
                 /\ lastAction' = lastAction
                 /\ (pc'[d] = "loop" /\ outcome'[d] = "cooldown") <=>
                        \E t \in 0..now :
                            /\ Key(d) \in DOMAIN lastAction
                            /\ lastAction[Key(d)] = t
                            /\ now < t + CooldownTime
          /\ (pc[d] = "recordCooldownLocked" /\ pc'[d] # pc[d]) =>
                 /\ DOMAIN lastAction' = DOMAIN lastAction \cup {Key(d)}
                 /\ lastAction'[Key(d)] = now
                 /\ \A k \in DOMAIN lastAction \ {Key(d)} :
                        lastAction'[k] = lastAction[k]]_vars

\* C29: a delivery wrote the record of its key beside the record of another
\* key, which is as old as it was.
C29_Witness ==
    \E d \in Deliveries :
        /\ pc[d] = "recordRecovery"
        /\ lastAction[Key(d)] = now
        /\ \E k \in DOMAIN lastAction : k # Key(d) /\ lastAction[k] < now

\* C30: a cooldown entry is never deleted and its time never moves back:
\* whatever step is taken (alerts resolved, skipped or failed, the clock
\* passing the window), every key that has an entry keeps one, with the same
\* or a later time.
C30_EntriesStay ==
    [][\A k \in DOMAIN lastAction :
          /\ k \in DOMAIN lastAction'
          /\ lastAction'[k] >= lastAction[k]
          /\ lastAction'[k] <= now']_vars

\* C30: an entry is older than the window, alerts were skipped or failed
\* after it was written, and it is still there.
C30_Witness ==
    \E d \in Deliveries, k \in DOMAIN lastAction :
        /\ now - lastAction[k] >= CooldownTime
        /\ outcome[d] \in Errors \cup {"notfiring", "nolabel"}

\* The calls that write to the cluster.
MutationPcs == {"deletePod", "update", "updateScale"}

\* C31: the engine never retries: a delivery gets to the cooldown check, and
\* so to the executor, only by reading a new alert at the head of the loop;
\* the executor starts from the cooldown check only; a call that failed ends
\* the alert (the delivery is back at the head of the loop with nothing of the
\* alert left), and a Delete, Update or UpdateScale that returned is followed
\* by no further call for the alert, whether it succeeded or failed.
C31_NoRetry ==
    [][\A d \in Deliveries :
          /\ (pc'[d] = "isCoolingDown" /\ pc[d] # pc'[d]) =>
                 /\ pc[d] = "loop" /\ Clean(d)
                 /\ todo'[d] = todo[d] - 1
          /\ (pc'[d] = "isCoolingDownLocked" /\ pc[d] # pc'[d]) =>
                 pc[d] = "isCoolingDown"
          /\ (pc'[d] \in {"deletePod", "listForRedeploy", "listForScale"}
                 /\ pc[d] # pc'[d]) =>
                 Executes(d)
          /\ (pc[d] \in CallPcs /\ pc'[d] \notin CallPcs
                 /\ pc'[d] # "recordCooldown") =>
                 pc'[d] = "loop" /\ Clean(d)' /\ outcome'[d] \in Errors
          /\ (pc[d] \in MutationPcs /\ pc'[d] # pc[d]) =>
                 pc'[d] \in {"loop", "recordCooldown"}
          /\ (pc[d] \in RecordPcs /\ pc'[d] # pc[d]) =>
                 pc'[d] \in RecordPcs \cup {"loop"}]_vars

\* C31: the one alert of a delivery failed in its Delete call, and the
\* delivery is at the end of its loop with nothing deleted, updated or
\* recorded.
C31_Witness ==
    \E d \in Deliveries :
        /\ pc[d] = "loop" /\ todo[d] = 0
        /\ outcome[d] = "failed to delete pod"
        /\ deleteCalled = {"default/nodejs-app"}
        /\ lastAction = <<>> /\ lastMut = <<>>
        /\ unsent = MaxAlerts - 1

\* The delivery is in a scale action on a deployment it listed without a
\* replica count.
ScalesUnset(d) ==
    /\ action[d].Action = "scale"
    /\ dep[d] # NoDep /\ dep[d].replicas = Nil

\* C32: a scale action on a deployment whose replica count is not set counts
\* it as 1: the Scale object it sends asks for 2 replicas, and when
\* UpdateScale succeeds the deployment has 2; the unset count is no error:
\* after the list each call of the action can return and the action go on,
\* and the only errors of such an action are those of its calls.
C32_UnsetCountsAsOne ==
    [][\A d \in Deliveries :
          /\ (ScalesUnset(d)' /\ pc'[d] = "updateScale") =>
                 scale'[d].replicas = 2
          /\ (ScalesUnset(d) /\ ScaleSucceeds(d)) =>
                 deployments'[dep[d].name].replicas = <<2>>
          /\ (ScalesUnset(d) /\ pc[d] = "getScale") =>
                 ENABLED (GetScaleReturn(d) /\ pc'[d] = "updateScale")
          /\ (ScalesUnset(d) /\ pc[d] = "updateScale") =>
                 ENABLED (UpdateScaleReturn(d) /\ pc'[d] = "recordCooldown")
          /\ (ScalesUnset(d) /\ pc'[d] = "loop") =>
                 outcome'[d] \in {"failed to get scale", "failed to scale"}]_vars

\* C32: a scale action succeeded on the deployment that had no replica count,
\* and the deployment has two replicas.
C32_Witness ==
    \E d \in Deliveries :
        /\ pc[d] = "recordCooldown" /\ action[d].Action = "scale"
        /\ outcome[d] = "ok"
        /\ deployments["nodejs-app"].replicas = <<2>>
        /\ deployments["nodejs-app"].rv = 1

\* A call of the delivery returns an error in this step.
CallFails(d) == pc[d] \in CallPcs /\ pc'[d] = "loop"

\* The call of the delivery that is in flight can return the error.
CanFail(d, err) ==
    ENABLED (Work(d) /\ pc'[d] = "loop" /\ outcome'[d] = err)

\* C33: the actions of several calls stop at the first call that fails: each
\* call can fail, and the step in which one does ends the action with the
\* error of that call, so that no later call of the action is issued (no
\* Update or GetScale after a failed List, no UpdateScale after a failed
\* GetScale); that step writes nothing to the cluster, to the cooldowns or
\* to the counters, the deployment the action had listed is as it was
\* listed, and the cluster is written only by an Update or UpdateScale that
\* succeeds.
C33_StopAtFirstFailure ==
    [][/\ \A d \in Deliveries :
            /\ CallFails(d) =>
                   /\ outcome'[d] \in Errors /\ Clean(d)'
                   /\ UNCHANGED <<deployments, lastAction, recoveryCount,
                                  lastMut>>
                   /\ dep[d] # NoDep =>
                          /\ deployments[dep[d].name].rv = dep[d].rv
                          /\ deployments[dep[d].name].replicas =
                                 dep[d].replicas
            /\ pc[d] \in {"listForRedeploy", "listForScale"} =>
                   CanFail(d, "failed to list deployments")
            /\ pc[d] = "update" => CanFail(d, "failed to update deployment")
            /\ pc[d] = "getScale" => CanFail(d, "failed to get scale")
            /\ pc[d] = "updateScale" => CanFail(d, "failed to scale")
       /\ deployments' # deployments =>
              \E d \in Deliveries :
                  /\ pc[d] \in {"update", "updateScale"}
                  /\ pc'[d] = "recordCooldown"]_vars

\* C33: the GetScale call of a scale action failed: the delivery is back at
\* the head of its loop, the cluster is as it was found, and no cooldown and
\* no counter was written.
C33_Witness ==
    \E d \in Deliveries :
        /\ pc[d] = "loop" /\ outcome[d] = "failed to get scale"
        /\ deployments = InitialDeployments
        /\ lastAction = <<>> /\ recoveryCount = <<>> /\ lastMut = <<>>

\* The namespace and the app of an alert, as its labels give them.
NamespaceAndApp(al) ==
    OrElse(al.labels.namespace, "default") \o "/" \o al.labels.app

\* C34: the cooldown goes by the namespace and the app of an alert only: when
\* an action of any kind succeeded for them less than a window ago, the
\* cooldown check skips the alert, whatever kind of action it asks for and
\* whatever pod it names, and nothing is called or written for it.
C34_KeyedByNamespaceAndApp ==
    [][\A d \in Deliveries :
          (/\ pc[d] = "isCoolingDownLocked" /\ pc'[d] # pc[d]
           /\ Within(lastMut, NamespaceAndApp(alert[d]))) =>
              /\ outcome'[d] = "cooldown"
              /\ NothingDone(d)]_vars

\* C34: one batch with restart alerts for two pods of nodejs-app: the Delete
\* of the first pod succeeded and was recorded, and the alert for the second
\* pod is at the cooldown check, which skips it.
C34_Witness ==
    \E d \in Deliveries :
        /\ pc[d] = "isCoolingDownLocked"
        /\ \A e \in Deliveries \ {d} : pc[e] = "idle"
        /\ action[d].Action = "restart" /\ action[d].Pod = "nodejs-app-xyz"
        /\ recoveryCount = [k \in {"restart"} |-> 1]
        /\ deleteCalled = {"default/nodejs-app"}
        /\ isCoolingDown(Key(d))
        /\ Read = 2

\* C35: the cooldown keys are independent: an alert is skipped for its
\* cooldown only when the record of its own namespace and app is less than a
\* window old, whatever records other keys have; and no step of a delivery
\* that is processing an alert adds, removes or changes the record of a key
\* other than that of its alert.
C35_KeysIndependent ==
    [][\A d \in Deliveries :
          /\ (/\ pc[d] = "isCoolingDownLocked" /\ pc'[d] = "loop"
              /\ outcome'[d] = "cooldown") =>
                 Within(lastAction, NamespaceAndApp(alert[d]))
          /\ (pc[d] \in BodyPcs /\ pc'[d] # pc[d]) =>
                 \A k \in (DOMAIN lastAction \cup DOMAIN lastAction')
                            \ {NamespaceAndApp(alert[d])} :
                     /\ Has(lastAction, k) /\ Has(lastAction', k)
                     /\ lastAction'[k] = lastAction[k]]_vars

\* C35: the Delete call of an alert about a pod in the namespace monitoring
\* is in flight while the record of nodejs-app in default is less than a
\* window old.
C35_Witness ==
    \E d \in Deliveries :
        /\ pc[d] = "deletePod"
        /\ NamespaceAndApp(alert[d]) = "monitoring/nodejs-app"
        /\ ~Has(lastAction, "monitoring/nodejs-app")
        /\ isCoolingDown("default/nodejs-app")

\* The delivery skips an alert in this step: one that is not firing or has no
\* recovery_action label, at the head of the loop, or one whose key is cooling
\* down, at the cooldown check.
Skips(d) ==
    \/ /\ pc[d] = "loop" /\ pc'[d] = "loop" /\ todo'[d] = todo[d] - 1
       /\ outcome'[d] \in {"notfiring", "nolabel"}
    \/ /\ pc[d] = "isCoolingDownLocked" /\ pc'[d] = "loop"
       /\ outcome'[d] = "cooldown"

\* C36: an alert that is skipped leaves the cooldown map and the counters
\* exactly as they are, and the cluster too; an alert suppressed by the
\* cooldown does not move the time of its key, which stays the time at which
\* the last successful action was recorded; and an alert is read, checked or
\* skipped at no other place than these.
C36_SkipChangesNothing ==
    [][\A d \in Deliveries :
          /\ Skips(d) =>
                 /\ UNCHANGED <<lastAction, recoveryCount, deployments,
                                lastMut, deleteCalled>>
                 /\ Clean(d)'
          /\ (pc[d] = "isCoolingDownLocked" /\ Skips(d)) =>
                 /\ lastAction'[Key(d)] = lastAction[Key(d)]
                 /\ lastAction[Key(d)] >= lastMut[Key(d)]
          /\ (pc[d] = "loop" /\ todo'[d] # todo[d] /\ ~Skips(d)) =>
                 /\ pc'[d] = "isCoolingDown"
                 /\ Firing(alert'[d])
                 /\ alert'[d].labels.recovery_action # ""
          /\ (pc[d] = "isCoolingDownLocked" /\ pc'[d] # pc[d]
                 /\ ~Skips(d)) =>
                 ~Within(lastAction, Key(d))]_vars

\* C36: an alert was skipped for its cooldown, and the record of its key is
\* still the one written before, at an earlier minute.
C36_Witness ==
    \E d \in Deliveries :
        /\ pc[d] = "loop" /\ outcome[d] = "cooldown"
        /\ DOMAIN lastAction = {"default/nodejs-app"}
        /\ lastAction["default/nodejs-app"] < now
        /\ lastMut = lastAction

\* The sum of the values a map has for the keys ks.
RECURSIVE SumOver(_, _)
SumOver(m, ks) ==
    IF ks = {} THEN 0
    ELSE LET k == CHOOSE x \in ks : TRUE
         IN m[k] + SumOver(m, ks \ {k})

\* No delivery is in progress.
Quiet == \A d \in Deliveries : ~InProgress(d)

\* C37: no increment of a counter is lost: whenever no delivery is in
\* progress, the counters add up to the number of actions that have completed
\* successfully, which is also the number of cooldown writes made.
C37_NoLostCount ==
    Quiet =>
        /\ SumOver(recoveryCount, DOMAIN recoveryCount) = succeeded
        /\ recorded = succeeded

\* C37: two deliveries have replied after each restarted the pod in the same
\* minute, which only overlapping deliveries do, and the counter of restart
\* is two.
C37_Witness ==
    /\ \A d \in Deliveries : pc[d] = "done" /\ resp[d] = <<StatusOK>>
    /\ now = 0
    /\ succeeded = 2 /\ recorded = 2
    /\ recoveryCount = [k \in {"restart"} |-> 2]

\* The delivery is waiting for a lock.
Waiting(d) == pc[d] \in {"isCoolingDown", "recordCooldown", "recordRecovery"}

\* The delivery holds a lock.
Holds(d) == cooldownMu = d \/ recoveryMu = d

\* C38: the two locks cannot deadlock: no delivery ever holds both, a
\* delivery that holds a lock releases it in its next step and takes no other
\* before, and a delivery that waits for a lock gets it, whether or not the
\* cluster calls of the other delivery return.
C38_NoDeadlock ==
    /\ [](\A d \in Deliveries : ~(cooldownMu = d /\ recoveryMu = d))
    /\ [][\A d \in Deliveries :
             (Holds(d) /\ pc'[d] # pc[d]) => ~Holds(d)']_vars
    /\ \A d \in Deliveries : Waiting(d) ~> Holds(d)

\* C38: one delivery waits for cooldownMu to check its alert while the other
\* holds it to record a cooldown.
C38_Witness ==
    \E d, e \in Deliveries :
        /\ pc[d] = "isCoolingDown"
        /\ pc[e] = "recordCooldownLocked" /\ cooldownMu = e
        /\ recoveryMu = NoOne

\* C39: every delivery terminates: a delivery whose batch was decoded works
\* through it and sends its acknowledgment, whatever its alerts and however
\* its steps interleave with those of the other delivery, when each of its
\* cluster calls returns.
C39_EveryDeliveryReplies ==
    \A d \in Deliveries :
        InProgress(d) ~> (pc[d] = "done" /\ resp[d] = <<StatusOK>>)

\* C39: both deliveries have sent their acknowledgment after one alert each,
\* and an action of each was counted.
C39_Witness ==
    /\ \A d \in Deliveries :
           pc[d] = "done" /\ resp[d] = <<StatusOK>> /\ Decoded(d)
    /\ unsent = MaxAlerts - 2
    /\ succeeded = 2
    /\ Cardinality(DOMAIN recoveryCount) = 2

====
